---- MODULE Spec2Model ----
(***************************************************************************)
(* Cohort classification engine of cohort-identifier (analysis.ts, the     *)
(* unified single-file version with the RepositoryAnalysis record).        *)
(*                                                                         *)
(* A repository record is a function from CSV column names to strings.     *)
(* A string is modelled as a sequence of one-character strings, so that    *)
(* trim, parseInt and the comparisons of toNumber / toBoolean work on the  *)
(* characters as the code does.  Text(s) turns such a sequence into a TLA+ *)
(* string for the reason and summary sentences.                            *)
(*                                                                         *)
(* CONFIG is a module constant of the source.  The variable config holds   *)
(* the configuration the engine runs with; the specifications start it in  *)
(* CONFIG or in an edited copy (toggles, thresholds) of it.                *)
(***************************************************************************)
EXTENDS Integers, Sequences, FiniteSets, TLC

VARIABLES config, data, pc, detailedResults, simpleResults, summaries,
          enterpriseSummaries

vars ==
  <<config, data, pc, detailedResults, simpleResults, summaries,
    enterpriseSummaries>>

-----------------------------------------------------------------------------
(* Strings as character sequences                                          *)

RECURSIVE Text(_)
Text(s) == IF s = <<>> THEN "" ELSE Head(s) \o Text(Tail(s))

Digits == <<"0", "1", "2", "3", "4", "5", "6", "7", "8", "9">>

IsDigit(c) == \E d \in 1..10 : Digits[d] = c

DigitValue(c) == (CHOOSE d \in 1..10 : Digits[d] = c) - 1

IsWhiteSpace(c) == c \in {" ", "\t", "\n", "\r"}

RECURSIVE TrimStart(_)
TrimStart(s) ==
  IF s # <<>> /\ IsWhiteSpace(Head(s)) THEN TrimStart(Tail(s)) ELSE s

RECURSIVE TrimEnd(_)
TrimEnd(s) ==
  IF s # <<>> /\ IsWhiteSpace(s[Len(s)])
    THEN TrimEnd(SubSeq(s, 1, Len(s) - 1))
    ELSE s

trim(s) == TrimEnd(TrimStart(s))

RECURSIVE DigitPrefix(_, _, _)
(* value of the longest prefix of decimal digits; seen = some digit read  *)
DigitPrefix(s, acc, seen) ==
  IF s # <<>> /\ IsDigit(Head(s))
    THEN DigitPrefix(Tail(s), 10 * acc + DigitValue(Head(s)), TRUE)
    ELSE [nan |-> ~seen, num |-> acc]

(* parseInt(value, 10): skip leading white space, read an optional sign,   *)
(* then the longest run of decimal digits; NaN when there is no digit.     *)
parseInt(value) ==
  LET t == TrimStart(value)
      neg == t # <<>> /\ Head(t) = "-"
      body == IF t # <<>> /\ Head(t) \in {"-", "+"} THEN Tail(t) ELSE t
      p == DigitPrefix(body, 0, FALSE)
  IN  [nan |-> p.nan, num |-> IF neg THEN 0 - p.num ELSE p.num]

isNaN(n) == n.nan

-----------------------------------------------------------------------------
(* CONFIGURATION SETTINGS                                                  *)

CONFIG ==
  [ WEIGHTS |->
      [ APP_INSTALLATIONS |-> 15,
        GIT_LFS_OBJECTS |-> 2,
        PACKAGES |-> 3,
        PROJECTS |-> 3,
        CUSTOM_PROPERTIES |-> 2,
        RULESETS |-> 3,
        SECRETS |-> 12,
        ENVIRONMENTS |-> 3,
        SELF_HOSTED_RUNNERS |-> 12,
        WEBHOOKS |-> 10,
        DISCUSSIONS |-> 2,
        DEPLOY_KEYS |-> 8,
        PAGES_CUSTOM_DOMAIN |-> 2,
        RELEASES_LARGE |-> 7,
        CODESPACES |-> 25,
        MAVEN_PACKAGES |-> 25,
        MACOS_RUNNERS |-> 25,
        IS_ARCHIVED |-> 1,
        EXTERNAL_COLLABORATORS |-> 12,
        UNMIGRATABLE |-> 30 ],
    THRESHOLDS |->
      [ CLEAN_REPO_MAX_WEIGHT |-> 0,
        LOW_COMPLEXITY_MAX_WEIGHT |-> 10,
        MEDIUM_COMPLEXITY_MAX_WEIGHT |-> 25 ],
    FEATURES |->
      [ INCLUDE_ARCHIVED_IN_MAIN_ANALYSIS |-> FALSE,
        SEPARATE_MAVEN_COHORT |-> TRUE,
        SEPARATE_CODESPACE_COHORT |-> TRUE,
        SEPARATE_MACOS_COHORT |-> TRUE,
        SEPARATE_UNMIGRATABLE_COHORT |-> FALSE ] ]

-----------------------------------------------------------------------------
(* UTILITY FUNCTIONS                                                       *)

isArchived(repo) ==
  \/ repo["isArchived"] = <<"t", "r", "u", "e">>
  \/ repo["isArchived"] = <<"T", "R", "U", "E">>
  \/ repo["isArchived"] = <<"1">>

toNumber(value) ==
  IF \/ value = <<>>
     \/ trim(value) = <<>>
     \/ value = <<"n", "u", "l", "l">>
     \/ value = <<"u", "n", "d", "e", "f", "i", "n", "e", "d">>
    THEN 0
    ELSE LET num == parseInt(value)
         IN  IF isNaN(num) THEN 0 ELSE num.num

toBoolean(value) ==
  \/ value = <<"t", "r", "u", "e">>
  \/ value = <<"T", "R", "U", "E">>
  \/ value = <<"1">>
  \/ value = <<"y", "e", "s">>
  \/ value = <<"Y", "E", "S">>

(* The if-statements of calculateMigrationWeight, in source order: the     *)
(* category whose weight a statement adds and whether its condition holds. *)
WeightBranches(repo) ==
  << [category |-> "APP_INSTALLATIONS",
      taken |-> toNumber(repo["app_installations"]) > 0],
     [category |-> "GIT_LFS_OBJECTS",
      taken |-> toNumber(repo["git-lfs-objects"]) > 0],
     [category |-> "PACKAGES",
      taken |-> toNumber(repo["repository-packages"]) > 0],
     [category |-> "PROJECTS",
      taken |-> \/ toNumber(repo["projects_linked_to_repo"]) > 0
                \/ toNumber(repo["issues_linked_to_projects"]) > 0],
     [category |-> "CUSTOM_PROPERTIES",
      taken |-> toNumber(repo["repository-custom-properties"]) > 0],
     [category |-> "RULESETS",
      taken |-> toNumber(repo["repository-rulesets"]) > 0],
     [category |-> "SECRETS",
      taken |-> \/ toNumber(repo["repository-actions-secrets"]) > 0
                \/ toNumber(repo["repository-dependabot-secrets"]) > 0],
     [category |-> "ENVIRONMENTS",
      taken |-> toNumber(repo["repository-environments"]) > 0],
     [category |-> "SELF_HOSTED_RUNNERS",
      taken |-> toNumber(repo["repository-actions-self-hosted-runners"]) > 0],
     [category |-> "WEBHOOKS",
      taken |-> toNumber(repo["repository-webhooks"]) > 0],
     [category |-> "DISCUSSIONS",
      taken |-> toNumber(repo["repository-discussions"]) > 0],
     [category |-> "DEPLOY_KEYS",
      taken |-> toNumber(repo["repository-deploy-keys"]) > 0],
     [category |-> "PAGES_CUSTOM_DOMAIN",
      taken |-> toNumber(repo["repository-pages-customdomain"]) > 0],
     [category |-> "RELEASES_LARGE",
      taken |-> toNumber(repo["repository-releases-gt-5gb"]) > 0],
     [category |-> "IS_ARCHIVED",
      taken |-> isArchived(repo)],
     [category |-> "EXTERNAL_COLLABORATORS",
      taken |-> toBoolean(repo["has_external_collaborators"])],
     [category |-> "UNMIGRATABLE",
      taken |-> toBoolean(repo["has_unmigratable"])] >>

RECURSIVE AddWeights(_, _)
(* let weight = 0; then weight += CONFIG.WEIGHTS.X for every taken branch  *)
AddWeights(branches, weight) ==
  IF branches = <<>> THEN weight
  ELSE AddWeights(Tail(branches),
                  IF Head(branches).taken
                    THEN weight + config.WEIGHTS[Head(branches).category]
                    ELSE weight)

(* the first weight multiplied by the count instead of added when the     *)
(* count is positive                                                       *)
calculateMigrationWeight_byCount(repo) ==
  AddWeights(Tail(WeightBranches(repo)),
             config.WEIGHTS.APP_INSTALLATIONS
               * toNumber(repo["app_installations"]))

(* one if-statement per project count instead of one for both             *)
calculateMigrationWeight_projectsTwice(repo) ==
  AddWeights(WeightBranches(repo),
             IF /\ toNumber(repo["projects_linked_to_repo"]) > 0
                /\ toNumber(repo["issues_linked_to_projects"]) > 0
               THEN config.WEIGHTS.PROJECTS
               ELSE 0)

(* the secrets weight added for the Actions secrets only                   *)
calculateMigrationWeight_actionsSecretsOnly(repo) ==
  AddWeights(
    [WeightBranches(repo) EXCEPT
       ![7].taken = toNumber(repo["repository-actions-secrets"]) > 0],
    0)

calculateMigrationWeight(repo) == AddWeights(WeightBranches(repo), 0)

(* The if-statements of getMigrationReasons, in source order: the category *)
(* a statement reports, whether its condition holds, the string it pushes. *)
ReasonBranches(repo) ==
  << [category |-> "APP_INSTALLATIONS",
      taken |-> toNumber(repo["app_installations"]) > 0,
      reason |-> "App installations (" \o Text(repo["app_installations"])
                 \o ")"],
     [category |-> "GIT_LFS_OBJECTS",
      taken |-> toNumber(repo["git-lfs-objects"]) > 0,
      reason |-> "Git LFS objects (" \o Text(repo["git-lfs-objects"])
                 \o ")"],
     [category |-> "PACKAGES",
      taken |-> toNumber(repo["repository-packages"]) > 0,
      reason |-> "Repository packages ("
                 \o Text(repo["repository-packages"]) \o ")"],
     [category |-> "PROJECTS",
      taken |-> \/ toNumber(repo["projects_linked_to_repo"]) > 0
                \/ toNumber(repo["issues_linked_to_projects"]) > 0,
      reason |-> "Projects linked (repo: "
                 \o Text(repo["projects_linked_to_repo"]) \o ", issues: "
                 \o Text(repo["issues_linked_to_projects"]) \o ")"],
     [category |-> "CUSTOM_PROPERTIES",
      taken |-> toNumber(repo["repository-custom-properties"]) > 0,
      reason |-> "Custom properties ("
                 \o Text(repo["repository-custom-properties"]) \o ")"],
     [category |-> "RULESETS",
      taken |-> toNumber(repo["repository-rulesets"]) > 0,
      reason |-> "Rulesets (" \o Text(repo["repository-rulesets"]) \o ")"],
     [category |-> "SECRETS",
      taken |-> \/ toNumber(repo["repository-actions-secrets"]) > 0
                \/ toNumber(repo["repository-dependabot-secrets"]) > 0,
      reason |-> "Secrets (Actions: "
                 \o Text(repo["repository-actions-secrets"])
                 \o ", Dependabot: "
                 \o Text(repo["repository-dependabot-secrets"]) \o ")"],
     [category |-> "ENVIRONMENTS",
      taken |-> toNumber(repo["repository-environments"]) > 0,
      reason |-> "Environments (" \o Text(repo["repository-environments"])
                 \o ")"],
     [category |-> "SELF_HOSTED_RUNNERS",
      taken |-> toNumber(repo["repository-actions-self-hosted-runners"]) > 0,
      reason |-> "Self-hosted runners ("
                 \o Text(repo["repository-actions-self-hosted-runners"])
                 \o ")"],
     [category |-> "WEBHOOKS",
      taken |-> toNumber(repo["repository-webhooks"]) > 0,
      reason |-> "Webhooks (" \o Text(repo["repository-webhooks"]) \o ")"],
     [category |-> "DISCUSSIONS",
      taken |-> toNumber(repo["repository-discussions"]) > 0,
      reason |-> "Discussions (" \o Text(repo["repository-discussions"])
                 \o ")"],
     [category |-> "DEPLOY_KEYS",
      taken |-> toNumber(repo["repository-deploy-keys"]) > 0,
      reason |-> "Deploy keys (" \o Text(repo["repository-deploy-keys"])
                 \o ")"],
     [category |-> "PAGES_CUSTOM_DOMAIN",
      taken |-> toNumber(repo["repository-pages-customdomain"]) > 0,
      reason |-> "Pages custom domain ("
                 \o Text(repo["repository-pages-customdomain"]) \o ")"],
     [category |-> "RELEASES_LARGE",
      taken |-> toNumber(repo["repository-releases-gt-5gb"]) > 0,
      reason |-> "Large releases ("
                 \o Text(repo["repository-releases-gt-5gb"]) \o ")"],
     [category |-> "MAVEN_PACKAGES",
      taken |-> toBoolean(repo["has_maven_packages"]),
      reason |-> "Maven packages (" \o Text(repo["maven_package_count"])
                 \o ")"],
     [category |-> "CODESPACES",
      taken |-> toBoolean(repo["has_codespaces"]),
      reason |-> "Codespaces (" \o Text(repo["codespace_count"])
                 \o " codespaces, " \o Text(repo["codespace_user_count"])
                 \o " users)"],
     [category |-> "MACOS_RUNNERS",
      taken |-> toBoolean(repo["has_macos_runners"]),
      reason |-> "macOS runners"],
     [category |-> "EXTERNAL_COLLABORATORS",
      taken |-> toBoolean(repo["has_external_collaborators"]),
      reason |-> "External collaborators"],
     [category |-> "UNMIGRATABLE",
      taken |-> toBoolean(repo["has_unmigratable"]),
      reason |-> "Unmigratable features"],
     [category |-> "IS_ARCHIVED",
      taken |-> isArchived(repo),
      reason |-> "Archived repository"] >>

IsTaken(branch) == branch.taken

(* the reason of the archived flag left out                                *)
getMigrationReasons_withoutArchived(repo) ==
  LET NotArchived(branch) == branch.taken /\ branch.category # "IS_ARCHIVED"
      pushed == SelectSeq(ReasonBranches(repo), NotArchived)
  IN  [i \in 1..Len(pushed) |-> pushed[i].reason]

(* the reasons put at the front of the list instead of its end            *)
getMigrationReasons_reversed(repo) ==
  LET pushed == SelectSeq(ReasonBranches(repo), IsTaken)
  IN  [i \in 1..Len(pushed) |-> pushed[Len(pushed) + 1 - i].reason]

getMigrationReasons(repo) ==
  LET pushed == SelectSeq(ReasonBranches(repo), IsTaken)
  IN  [i \in 1..Len(pushed) |-> pushed[i].reason]

(* The decision list of assignCohort, in source order: the condition of    *)
(* each if-statement and the label it returns; the last entry is the       *)
(* unconditional final return.                                             *)
CohortSteps(repo, migrationWeight) ==
  << [applies |-> /\ config.FEATURES.SEPARATE_UNMIGRATABLE_COHORT
                  /\ toBoolean(repo["has_unmigratable"]),
      cohort |-> "UNMIGRATABLE"],
     [applies |-> isArchived(repo),
      cohort |-> "ARCHIVED"],
     [applies |-> /\ config.FEATURES.SEPARATE_MACOS_COHORT
                  /\ toBoolean(repo["has_macos_runners"]),
      cohort |-> "MACOS_RUNNERS"],
     [applies |-> /\ config.FEATURES.SEPARATE_MAVEN_COHORT
                  /\ toBoolean(repo["has_maven_packages"]),
      cohort |-> "MAVEN_PACKAGES"],
     [applies |-> /\ config.FEATURES.SEPARATE_CODESPACE_COHORT
                  /\ toBoolean(repo["has_codespaces"]),
      cohort |-> "CODESPACES"],
     [applies |-> migrationWeight <= config.THRESHOLDS.CLEAN_REPO_MAX_WEIGHT,
      cohort |-> "CLEAN"],
     [applies |->
        migrationWeight <= config.THRESHOLDS.LOW_COMPLEXITY_MAX_WEIGHT,
      cohort |-> "LOW_COMPLEXITY"],
     [applies |->
        migrationWeight <= config.THRESHOLDS.MEDIUM_COMPLEXITY_MAX_WEIGHT,
      cohort |-> "MEDIUM_COMPLEXITY"],
     [applies |-> TRUE,
      cohort |-> "HIGH_COMPLEXITY"] >>

(* the first return statement reached                                      *)
FirstReturn(steps) ==
  steps[CHOOSE k \in 1..Len(steps) :
          steps[k].applies /\ \A j \in 1..(k - 1) : ~steps[j].applies].cohort

Swap(steps, i, j) == [steps EXCEPT ![i] = steps[j], ![j] = steps[i]]

(* the macOS step placed in front of the archived step                     *)
assignCohort_macOsBeforeArchived(repo, migrationWeight) ==
  FirstReturn(Swap(CohortSteps(repo, migrationWeight), 2, 3))

(* the archived step placed in front of the unmigratable step              *)
assignCohort_archivedBeforeUnmigratable(repo, migrationWeight) ==
  FirstReturn(Swap(CohortSteps(repo, migrationWeight), 1, 2))

(* the Codespaces step placed in front of the Maven step                   *)
assignCohort_codespacesBeforeMaven(repo, migrationWeight) ==
  FirstReturn(Swap(CohortSteps(repo, migrationWeight), 4, 5))

(* the low-complexity threshold compared with < instead of <=              *)
assignCohort_strictLowThreshold(repo, migrationWeight) ==
  FirstReturn(
    [CohortSteps(repo, migrationWeight) EXCEPT
       ![7].applies =
         migrationWeight < config.THRESHOLDS.LOW_COMPLEXITY_MAX_WEIGHT])

(* the final return missing: the function falls off its end                *)
assignCohort_noFinalReturn(repo, migrationWeight) ==
  FirstReturn(
    [CohortSteps(repo, migrationWeight) EXCEPT ![9].cohort = "undefined"])

(* the macOS step taken whatever its toggle says                           *)
assignCohort_macOsToggleIgnored(repo, migrationWeight) ==
  FirstReturn(
    [CohortSteps(repo, migrationWeight) EXCEPT
       ![3].applies = toBoolean(repo["has_macos_runners"])])

(* the weight tiers decided in front of the categorical steps               *)
assignCohort_weightFirst(repo, migrationWeight) ==
  LET steps == CohortSteps(repo, migrationWeight)
  IN  FirstReturn(SubSeq(steps, 6, 8) \o SubSeq(steps, 1, 5) \o <<steps[9]>>)

assignCohort(repo, migrationWeight) ==
  FirstReturn(CohortSteps(repo, migrationWeight))

(* one templated sentence for every label                                  *)
generateSummary_templatedEverywhere(cohort, reasons, weight) ==
  "Migration (weight: " \o ToString(weight) \o ") - "
    \o ToString(Len(reasons)) \o " issues"

generateSummary(cohort, reasons, weight) ==
  CASE cohort = "UNMIGRATABLE" ->
         "Repository has features that cannot be migrated - requires special handling"
    [] cohort = "ARCHIVED" ->
         "Archived repository - lower migration priority"
    [] cohort = "CLEAN" ->
         "Clean repository with no migration blockers - can migrate easily"
    [] cohort = "MACOS_RUNNERS" ->
         "Repository with macOS runners - requires runner migration planning"
    [] cohort = "MAVEN_PACKAGES" ->
         "Repository with Maven packages - requires package migration planning"
    [] cohort = "CODESPACES" ->
         "Repository with Codespaces usage - requires Codespaces migration planning"
    [] cohort = "LOW_COMPLEXITY" ->
         "Low complexity migration (weight: " \o ToString(weight) \o ") - "
         \o ToString(Len(reasons)) \o " minor issues"
    [] cohort = "MEDIUM_COMPLEXITY" ->
         "Medium complexity migration (weight: " \o ToString(weight) \o ") - "
         \o ToString(Len(reasons)) \o " moderate issues"
    [] cohort = "HIGH_COMPLEXITY" ->
         "High complexity migration (weight: " \o ToString(weight) \o ") - "
         \o ToString(Len(reasons)) \o " major issues"
    [] OTHER -> "Migration weight: " \o ToString(weight)

-----------------------------------------------------------------------------
(* MAIN ANALYSIS FUNCTIONS                                                 *)

hasFeatureFlags(repo) ==
  [ HAS_APP_INSTALLATIONS |-> toNumber(repo["app_installations"]) > 0,
    HAS_GIT_LFS_OBJECTS |-> toNumber(repo["git-lfs-objects"]) > 0,
    HAS_PACKAGES |-> toNumber(repo["repository-packages"]) > 0,
    HAS_PROJECTS |->
      \/ toNumber(repo["projects_linked_to_repo"]) > 0
      \/ toNumber(repo["issues_linked_to_projects"]) > 0,
    HAS_CUSTOM_PROPERTIES |->
      toNumber(repo["repository-custom-properties"]) > 0,
    HAS_RULESETS |-> toNumber(repo["repository-rulesets"]) > 0,
    HAS_SECRETS |->
      \/ toNumber(repo["repository-actions-secrets"]) > 0
      \/ toNumber(repo["repository-dependabot-secrets"]) > 0,
    HAS_ENVIRONMENTS |-> toNumber(repo["repository-environments"]) > 0,
    HAS_SELF_HOSTED_RUNNERS |->
      toNumber(repo["repository-actions-self-hosted-runners"]) > 0,
    HAS_WEBHOOKS |-> toNumber(repo["repository-webhooks"]) > 0,
    HAS_DISCUSSIONS |-> toNumber(repo["repository-discussions"]) > 0,
    HAS_DEPLOY_KEYS |-> toNumber(repo["repository-deploy-keys"]) > 0,
    HAS_PAGES_CUSTOM_DOMAIN |->
      toNumber(repo["repository-pages-customdomain"]) > 0,
    HAS_RELEASES_LARGE |-> toNumber(repo["repository-releases-gt-5gb"]) > 0,
    HAS_CODESPACES |-> toBoolean(repo["has_codespaces"]),
    HAS_MAVEN_PACKAGES |-> toBoolean(repo["has_maven_packages"]),
    HAS_MACOS_RUNNERS |-> toBoolean(repo["has_macos_runners"]),
    HAS_IS_ARCHIVED |-> isArchived(repo),
    HAS_EXTERNAL_COLLABORATORS |->
      toBoolean(repo["has_external_collaborators"]),
    HAS_UNMIGRATABLE |-> toBoolean(repo["has_unmigratable"]) ]

(* the macOS runners left out of the count                                 *)
countFeatureGaps_withoutMacOs(repo) ==
  (IF toBoolean(repo["has_maven_packages"]) THEN 1 ELSE 0)
  + (IF toBoolean(repo["has_codespaces"]) THEN 1 ELSE 0)

countFeatureGaps(repo) ==
  (IF toBoolean(repo["has_maven_packages"]) THEN 1 ELSE 0)
  + (IF toBoolean(repo["has_codespaces"]) THEN 1 ELSE 0)
  + (IF toBoolean(repo["has_macos_runners"]) THEN 1 ELSE 0)

RECURSIVE join(_, _)
(* Array.prototype.join                                                    *)
join(strings, separator) ==
  IF strings = <<>> THEN ""
  ELSE IF Len(strings) = 1 THEN strings[1]
  ELSE strings[1] \o separator \o join(Tail(strings), separator)

(* one iteration of the loop of analyzeRepositoriesDetailed               *)
DetailOf(repo) ==
  LET migrationWeight == calculateMigrationWeight(repo)
      migrationReasons == getMigrationReasons(repo)
      cohort == assignCohort(repo, migrationWeight)
      summary == generateSummary(cohort, migrationReasons, migrationWeight)
      featureFlags == hasFeatureFlags(repo)
      featureGapCount == countFeatureGaps(repo)
  IN  [ repositoryName |-> Text(repo["Repo_Name"]),
        organizationName |-> Text(repo["Org_Name"]),
        enterpriseName |-> repo["Enterprise"],
        cohort |-> cohort,
        cohortWeight |-> migrationWeight,
        migrationWeight |-> migrationWeight,
        migrationReasons |-> join(migrationReasons, "; "),
        summary |-> summary,
        featureGapCount |-> featureGapCount ] @@ featureFlags

(* one iteration of the loop of analyzeRepositories                        *)
ResultOf(repo) ==
  LET migrationWeight == calculateMigrationWeight(repo)
      migrationReasons == getMigrationReasons(repo)
      cohort == assignCohort(repo, migrationWeight)
      summary == generateSummary(cohort, migrationReasons, migrationWeight)
  IN  [ repoName |-> Text(repo["Repo_Name"]),
        orgName |-> Text(repo["Org_Name"]),
        enterpriseName |-> repo["Enterprise"],
        cohort |-> cohort,
        migrationWeight |-> migrationWeight,
        reasons |-> migrationReasons,
        summary |-> summary,
        isArchived |-> isArchived(repo) ]

RECURSIVE analyzeRepositoriesDetailed(_)
(* for (const repo of data.repositories) results.push(...)                 *)
analyzeRepositoriesDetailed(repositories) ==
  IF repositories = <<>> THEN <<>>
  ELSE <<DetailOf(Head(repositories))>>
       \o analyzeRepositoriesDetailed(Tail(repositories))

RECURSIVE analyzeRepositories_unshift(_)
(* results.unshift(...) instead of results.push(...)                       *)
analyzeRepositories_unshift(repositories) ==
  IF repositories = <<>> THEN <<>>
  ELSE analyzeRepositories_unshift(Tail(repositories))
       \o <<ResultOf(Head(repositories))>>

RECURSIVE analyzeRepositories(_)
analyzeRepositories(repositories) ==
  IF repositories = <<>> THEN <<>>
  ELSE <<ResultOf(Head(repositories))>>
       \o analyzeRepositories(Tail(repositories))

-----------------------------------------------------------------------------
(* Numbers and orders of the runtime                                       *)

RECURSIVE Gcd(_, _)
Gcd(a, b) == IF b = 0 THEN a ELSE Gcd(b, a % b)

(* the quotient truncated to an integer                                    *)
Quotient_floor(total, count) == [num |-> total \div count, den |-> 1]

(* The quotient total / count of two non-negative integers, count > 0,     *)
(* kept exact as a fraction in lowest terms: equal quotients are equal     *)
(* values, as the correctly rounded doubles of the runtime are.            *)
Quotient(total, count) ==
  LET g == Gcd(total, count)
  IN  [num |-> total \div g, den |-> count \div g]

(* sign of a - b for two such quotients                                    *)
Minus(a, b) ==
  LET l == a.num * b.den
      r == b.num * a.den
  IN  IF l < r THEN -1 ELSE IF l > r THEN 1 ELSE 0

(* String.prototype.localeCompare on cohort labels: the labels are upper   *)
(* case ASCII and differ at a letter, so it is their dictionary order.     *)
CohortLabels ==
  << "ARCHIVED", "CLEAN", "CODESPACES", "HIGH_COMPLEXITY", "LOW_COMPLEXITY",
     "MACOS_RUNNERS", "MAVEN_PACKAGES", "MEDIUM_COMPLEXITY", "UNMIGRATABLE" >>

LabelRank(label) == CHOOSE k \in 1..Len(CohortLabels) : CohortLabels[k] = label

localeCompareCohort(a, b) == LabelRank(a) - LabelRank(b)

(* String.prototype.localeCompare on names made of ASCII letters: the      *)
(* alphabetical order that ignores case; names that differ only in case    *)
(* are ordered by the first such letter, lower case first.                 *)
LowerCase ==
  << "a", "b", "c", "d", "e", "f", "g", "h", "i", "j", "k", "l", "m",
     "n", "o", "p", "q", "r", "s", "t", "u", "v", "w", "x", "y", "z" >>

UpperCase ==
  << "A", "B", "C", "D", "E", "F", "G", "H", "I", "J", "K", "L", "M",
     "N", "O", "P", "Q", "R", "S", "T", "U", "V", "W", "X", "Y", "Z" >>

IsUpperCase(c) == \E k \in 1..Len(UpperCase) : UpperCase[k] = c

LetterRank(c) ==
  CHOOSE k \in 1..Len(LowerCase) : LowerCase[k] = c \/ UpperCase[k] = c

RECURSIVE CompareLetters(_, _)
CompareLetters(a, b) ==
  IF a = <<>> /\ b = <<>> THEN 0
  ELSE IF a = <<>> THEN -1
  ELSE IF b = <<>> THEN 1
  ELSE IF LetterRank(Head(a)) < LetterRank(Head(b)) THEN -1
  ELSE IF LetterRank(Head(a)) > LetterRank(Head(b)) THEN 1
  ELSE CompareLetters(Tail(a), Tail(b))

RECURSIVE CompareCase(_, _)
CompareCase(a, b) ==
  IF a = <<>> \/ b = <<>> THEN 0
  ELSE IF ~IsUpperCase(Head(a)) /\ IsUpperCase(Head(b)) THEN -1
  ELSE IF IsUpperCase(Head(a)) /\ ~IsUpperCase(Head(b)) THEN 1
  ELSE CompareCase(Tail(a), Tail(b))

localeCompare(a, b) ==
  IF CompareLetters(a, b) # 0 THEN CompareLetters(a, b) ELSE CompareCase(a, b)

Unknown == <<"U", "n", "k", "n", "o", "w", "n">>

(* the default name left out                                               *)
OrUnknown_keepEmpty(name) == name

(* name || "Unknown"                                                       *)
OrUnknown(name) == IF name = <<>> THEN Unknown ELSE name

(* (a, b) => b.averageWeight - a.averageWeight                             *)
CompareAverageDesc(a, b) == Minus(b.averageWeight, a.averageWeight)

(* comparator of the in-place sort of exportDetailedToCsv                  *)
CompareCohortThenWeight(a, b) ==
  IF a.cohort # b.cohort
    THEN localeCompareCohort(a.cohort, b.cohort)
    ELSE b.migrationWeight - a.migrationWeight

(* the operands of the comparison exchanged                                *)
CompareEnterpriseName_descending(a, b) ==
  localeCompare(b.enterpriseName, a.enterpriseName)

(* (a, b) => a.enterpriseName.localeCompare(b.enterpriseName)              *)
CompareEnterpriseName(a, b) == localeCompare(a.enterpriseName, b.enterpriseName)

(* comparator of the in-place sort of exportEnterpriseSpecificToCsv        *)
CompareEnterpriseThenCohortThenWeight(a, b) ==
  LET enterpriseA == OrUnknown(a.enterpriseName)
      enterpriseB == OrUnknown(b.enterpriseName)
  IN  IF enterpriseA # enterpriseB
        THEN localeCompare(enterpriseA, enterpriseB)
      ELSE IF a.cohort # b.cohort
        THEN localeCompareCohort(a.cohort, b.cohort)
      ELSE b.migrationWeight - a.migrationWeight

(* the comparator functions passed to sort, by name                        *)
Call(compare, a, b) ==
  CASE compare = "averageDesc" -> CompareAverageDesc(a, b)
    [] compare = "cohortThenWeight" -> CompareCohortThenWeight(a, b)
    [] compare = "enterpriseName" -> CompareEnterpriseName(a, b)
    [] compare = "enterpriseThenCohortThenWeight" ->
         CompareEnterpriseThenCohortThenWeight(a, b)

(* an unstable sort: the element is put in front of its equals            *)
InsertSorted_beforeEquals(sorted, x, compare) ==
  LET p == Cardinality({j \in 1..Len(sorted) :
                          Call(compare, sorted[j], x) < 0})
  IN  SubSeq(sorted, 1, p) \o <<x>> \o SubSeq(sorted, p + 1, Len(sorted))

(* Array.prototype.sort with a comparator: stable, an element moves in     *)
(* front of another only when the comparator orders it strictly before.    *)
InsertSorted(sorted, x, compare) ==
  LET p == Cardinality({j \in 1..Len(sorted) :
                          Call(compare, sorted[j], x) <= 0})
  IN  SubSeq(sorted, 1, p) \o <<x>> \o SubSeq(sorted, p + 1, Len(sorted))

sort(array, compare) ==
  LET sorted[i \in 0..Len(array)] ==
        IF i = 0 THEN <<>> ELSE InsertSorted(sorted[i - 1], array[i], compare)
  IN  sorted[Len(array)]

-----------------------------------------------------------------------------
(* Aggregation                                                             *)

RECURSIVE MapKeys(_, _)
(* keys of the Map built by the grouping loop, in insertion order: the     *)
(* order in which each key first occurs in the list                        *)
MapKeys(keys, seen) ==
  IF keys = <<>> THEN <<>>
  ELSE IF Head(keys) \in seen THEN MapKeys(Tail(keys), seen)
  ELSE <<Head(keys)>> \o MapKeys(Tail(keys), seen \cup {Head(keys)})

(* the reducer returning the element's weight instead of adding it        *)
SumWeight_lastOnly(results) ==
  IF results = <<>> THEN 0 ELSE results[Len(results)].migrationWeight

RECURSIVE SumWeight(_)
(* cohortResults.reduce((sum, result) => sum + result.migrationWeight, 0)  *)
SumWeight(results) ==
  IF results = <<>> THEN 0
  ELSE Head(results).migrationWeight + SumWeight(Tail(results))

generateCohortSummaries(results) ==
  LET cohortOf == [i \in 1..Len(results) |-> results[i].cohort]
      cohortNames == MapKeys(cohortOf, {})
      CohortResults(name) ==
        LET InCohort(result) == result.cohort = name
        IN  SelectSeq(results, InCohort)
      SummaryOf(name) ==
        LET cohortResults == CohortResults(name)
            repositoryCount == Len(cohortResults)
            totalWeight == SumWeight(cohortResults)
            averageWeight ==
              IF repositoryCount > 0
                THEN Quotient(totalWeight, repositoryCount)
                ELSE Quotient(0, 1)
        IN  [ cohortName |-> name,
              repositoryCount |-> repositoryCount,
              totalWeight |-> totalWeight,
              averageWeight |-> averageWeight ]
      unsorted == [k \in 1..Len(cohortNames) |-> SummaryOf(cohortNames[k])]
  IN  sort(unsorted, "averageDesc")

generateEnterpriseCohortSummaries(results) ==
  LET enterpriseOf ==
        [i \in 1..Len(results) |-> OrUnknown(results[i].enterpriseName)]
      enterpriseNames == MapKeys(enterpriseOf, {})
      EnterpriseResults(name) ==
        LET InEnterprise(result) == OrUnknown(result.enterpriseName) = name
        IN  SelectSeq(results, InEnterprise)
      SummaryOf(name) ==
        LET enterpriseResults == EnterpriseResults(name)
            cohortSummaries == generateCohortSummaries(enterpriseResults)
            totalRepositories == Len(enterpriseResults)
            totalWeight == SumWeight(enterpriseResults)
            averageWeight ==
              IF totalRepositories > 0
                THEN Quotient(totalWeight, totalRepositories)
                ELSE Quotient(0, 1)
        IN  [ enterpriseName |-> name,
              cohortSummaries |-> cohortSummaries,
              totalRepositories |-> totalRepositories,
              totalWeight |-> totalWeight,
              averageWeight |-> averageWeight ]
      unsorted ==
        [k \in 1..Len(enterpriseNames) |-> SummaryOf(enterpriseNames[k])]
  IN  sort(unsorted, "enterpriseName")

-----------------------------------------------------------------------------
(* Input records                                                           *)

NumericFields ==
  { "app_installations", "git-lfs-objects", "repository-packages",
    "projects_linked_to_repo", "issues_linked_to_projects",
    "repository-custom-properties", "repository-rulesets",
    "repository-actions-secrets", "repository-dependabot-secrets",
    "repository-environments", "repository-actions-self-hosted-runners",
    "repository-webhooks", "repository-discussions",
    "repository-deploy-keys", "repository-pages-customdomain",
    "repository-releases-gt-5gb" }

BooleanFields ==
  { "isArchived", "has_external_collaborators", "has_unmigratable",
    "has_maven_packages", "has_codespaces", "has_macos_runners" }

TextFields ==
  { "Enterprise", "Org_Name", "Repo_Name", "maven_package_count",
    "codespace_count", "codespace_user_count" }

Fields == NumericFields \cup BooleanFields \cup TextFields

(* a record of the CSV with every count and flag column left empty         *)
BlankRepo ==
  [f \in Fields |->
     CASE f = "Repo_Name" -> <<"r">>
       [] f = "Org_Name" -> <<"o">>
       [] f \in {"maven_package_count", "codespace_count",
                 "codespace_user_count"} -> <<"1">>
       [] OTHER -> <<>>]

With(repo, f, v) == [repo EXCEPT ![f] = v]

NumericValues ==
  { <<>>, <<"0">>, <<"5">>, <<"1", "2">>, <<"-", "1">>, <<"2", "x">>,
    <<"x">>, <<"n", "u", "l", "l">>, <<" ", "4">> }

BooleanValues ==
  { <<>>, <<"t", "r", "u", "e">>, <<"T", "R", "U", "E">>, <<"1">>,
    <<"y", "e", "s">>, <<"Y", "E", "S">>, <<"f", "a", "l", "s", "e">>,
    <<"T", "r", "u", "e">> }

FieldValues ==
  {<<f, v>> : f \in NumericFields, v \in NumericValues}
    \cup {<<f, v>> : f \in BooleanFields, v \in BooleanValues}

(* records with at most two columns filled, with well-formed and           *)
(* malformed spellings                                                     *)
SpellingRepos ==
  {With(With(BlankRepo, a[1], a[2]), b[1], b[2]) : a, b \in FieldValues}

(* records with any combination of the six flags and at most one count     *)
FlagRepos ==
  LET Flagged(flags) ==
        [f \in Fields |->
           IF f \in flags THEN <<"t", "r", "u", "e">> ELSE BlankRepo[f]]
  IN  {Flagged(flags) : flags \in SUBSET BooleanFields}
        \cup {With(Flagged(flags), f, <<"1">>) :
                flags \in SUBSET BooleanFields, f \in NumericFields}

(* edited copies of CONFIG: every setting of the four cohort toggles, and  *)
(* the thresholds of the source or a second ascending triple               *)
ThresholdChoices ==
  { CONFIG.THRESHOLDS,
    [ CLEAN_REPO_MAX_WEIGHT |-> 2,
      LOW_COMPLEXITY_MAX_WEIGHT |-> 7,
      MEDIUM_COMPLEXITY_MAX_WEIGHT |-> 14 ] }

Configs ==
  { [ WEIGHTS |-> CONFIG.WEIGHTS,
      THRESHOLDS |-> t,
      FEATURES |->
        [ INCLUDE_ARCHIVED_IN_MAIN_ANALYSIS |-> FALSE,
          SEPARATE_MAVEN_COHORT |-> mv,
          SEPARATE_CODESPACE_COHORT |-> cs,
          SEPARATE_MACOS_COHORT |-> mac,
          SEPARATE_UNMIGRATABLE_COHORT |-> un ] ] :
      t \in ThresholdChoices, mv \in BOOLEAN, cs \in BOOLEAN,
      mac \in BOOLEAN, un \in BOOLEAN }

MaxRepos == 3

Enterprises == { <<>>, <<"A", "c", "m", "e">>, <<"b", "e", "t", "a">> }

(* a small pool for the aggregation: a clean record, two low-complexity    *)
(* records of different weight and a Maven record, per enterprise          *)
PoolRepos ==
  { With(r, "Enterprise", e) :
      r \in { BlankRepo,
              With(BlankRepo, "repository-webhooks", <<"1">>),
              With(BlankRepo, "repository-deploy-keys", <<"2">>),
              With(BlankRepo, "has_maven_packages", <<"t", "r", "u", "e">>) },
      e \in Enterprises }

-----------------------------------------------------------------------------
(* runCohortAnalysis, one action per call                                  *)

Unset == <<>>

InitClassify ==
  /\ \/ config = CONFIG /\ \E repo \in SpellingRepos : data = <<repo>>
     \/ config \in Configs /\ \E repo \in FlagRepos : data = <<repo>>
  /\ pc = "analyzeDetailed"
  /\ detailedResults = Unset
  /\ simpleResults = Unset
  /\ summaries = Unset
  /\ enterpriseSummaries = Unset

Init ==
  /\ config = CONFIG
  /\ data \in UNION {[1..n -> PoolRepos] : n \in 0..MaxRepos}
  /\ pc = "analyzeDetailed"
  /\ detailedResults = Unset
  /\ simpleResults = Unset
  /\ summaries = Unset
  /\ enterpriseSummaries = Unset

AnalyzeRepositoriesDetailed ==
  /\ pc = "analyzeDetailed"
  /\ detailedResults' = analyzeRepositoriesDetailed(data)
  /\ pc' = "exportDetailed"
  /\ UNCHANGED <<config, data, simpleResults, summaries, enterpriseSummaries>>

ExportDetailedToCsv ==
  /\ pc = "exportDetailed"
  /\ detailedResults' = sort(detailedResults, "cohortThenWeight")
  /\ pc' = "analyze"
  /\ UNCHANGED <<config, data, simpleResults, summaries, enterpriseSummaries>>

AnalyzeRepositories ==
  /\ pc = "analyze"
  /\ simpleResults' = analyzeRepositories(data)
  /\ pc' = "summaries"
  /\ UNCHANGED <<config, data, detailedResults, summaries, enterpriseSummaries>>

GenerateCohortSummaries ==
  /\ pc = "summaries"
  /\ summaries' = generateCohortSummaries(simpleResults)
  /\ pc' = "export"
  /\ UNCHANGED <<config, data, detailedResults, simpleResults,
                 enterpriseSummaries>>

ExportToCsv ==
  /\ pc = "export"
  /\ simpleResults' = sort(simpleResults, "cohortThenWeight")
  /\ pc' = "enterprise"
  /\ UNCHANGED <<config, data, detailedResults, summaries,
                 enterpriseSummaries>>

GenerateEnterpriseCohortSummaries ==
  /\ pc = "enterprise"
  /\ enterpriseSummaries' = generateEnterpriseCohortSummaries(simpleResults)
  /\ pc' = "exportEnterprise"
  /\ UNCHANGED <<config, data, detailedResults, simpleResults, summaries>>

ExportEnterpriseSpecificToCsv ==
  /\ pc = "exportEnterprise"
  /\ simpleResults' = sort(simpleResults, "enterpriseThenCohortThenWeight")
  /\ pc' = "done"
  /\ UNCHANGED <<config, data, detailedResults, summaries,
                 enterpriseSummaries>>

NextClassify ==
  \/ AnalyzeRepositoriesDetailed
  \/ ExportDetailedToCsv
  \/ AnalyzeRepositories

Next ==
  \/ AnalyzeRepositoriesDetailed
  \/ ExportDetailedToCsv
  \/ AnalyzeRepositories
  \/ GenerateCohortSummaries
  \/ ExportToCsv
  \/ GenerateEnterpriseCohortSummaries
  \/ ExportEnterpriseSpecificToCsv

SpecClassify == InitClassify /\ [][NextClassify]_vars

Spec == Init /\ [][Next]_vars

-----------------------------------------------------------------------------
(* Properties                                                              *)

CohortEnumeration ==
  { "ARCHIVED", "UNMIGRATABLE", "MACOS_RUNNERS", "MAVEN_PACKAGES",
    "CODESPACES", "CLEAN", "LOW_COMPLEXITY", "MEDIUM_COMPLEXITY",
    "HIGH_COMPLEXITY" }

Categories == DOMAIN CONFIG.WEIGHTS

FlagOf(category) == "HAS_" \o category

(* a single record has been classified by both analyses                    *)
Classified == Len(data) = 1 /\ pc = "summaries"

TheRepo == data[1]

TheResult == simpleResults[1]

TheDetail == detailedResults[1]

PresentCategories == {c \in Categories : TheDetail[FlagOf(c)]}

RECURSIVE SumOfWeights(_)
SumOfWeights(categories) ==
  IF categories = {} THEN 0
  ELSE LET c == CHOOSE x \in categories : TRUE
       IN  config.WEIGHTS[c] + SumOfWeights(categories \ {c})

Unmigratable == toBoolean(TheRepo["has_unmigratable"])

MacOs == toBoolean(TheRepo["has_macos_runners"])

Maven == toBoolean(TheRepo["has_maven_packages"])

Codespaces == toBoolean(TheRepo["has_codespaces"])

DecidedUnmigratable ==
  config.FEATURES.SEPARATE_UNMIGRATABLE_COHORT /\ Unmigratable

PlatformTogglesEnabled ==
  /\ config.FEATURES.SEPARATE_MACOS_COHORT
  /\ config.FEATURES.SEPARATE_MAVEN_COHORT
  /\ config.FEATURES.SEPARATE_CODESPACE_COHORT

(* some step 1-5 of the decision list applies to the record                *)
DecidedCategorically ==
  \/ DecidedUnmigratable
  \/ isArchived(TheRepo)
  \/ config.FEATURES.SEPARATE_MACOS_COHORT /\ MacOs
  \/ config.FEATURES.SEPARATE_MAVEN_COHORT /\ Maven
  \/ config.FEATURES.SEPARATE_CODESPACE_COHORT /\ Codespaces

(* C1: the migration weight of a record is the sum of the configured       *)
(* weights of all categories present on it, over the full category set     *)
(* (count-based blockers, archived, external collaborators, unmigratable,  *)
(* Maven packages, Codespaces, macOS runners).                             *)
C1_WeightIsSumOverPresentCategories ==
  Classified =>
    TheResult.migrationWeight = SumOfWeights(PresentCategories)

(* C2: a record with the archived flag and the macOS-runner flag, not      *)
(* decided by the unmigratable step, is labelled ARCHIVED, never           *)
(* MACOS_RUNNERS, whatever the weight and the toggles.                     *)
C2_ArchivedBeforeMacOs ==
  (Classified /\ isArchived(TheRepo) /\ MacOs /\ ~DecidedUnmigratable)
    => TheResult.cohort = "ARCHIVED"

C2_Witness ==
  /\ Classified /\ isArchived(TheRepo) /\ MacOs /\ ~DecidedUnmigratable
  /\ config.FEATURES.SEPARATE_MACOS_COHORT
  /\ TheResult.cohort = "ARCHIVED"
  /\ TheResult.migrationWeight > config.THRESHOLDS.MEDIUM_COMPLEXITY_MAX_WEIGHT

(* C3: with the unmigratable toggle enabled, a record whose unmigratable   *)
(* flag is present is labelled UNMIGRATABLE, also when it is archived,     *)
(* has platform-gap flags, or has any weight.                              *)
C3_UnmigratableFirst ==
  (Classified /\ DecidedUnmigratable) => TheResult.cohort = "UNMIGRATABLE"

C3_Witness ==
  /\ Classified /\ DecidedUnmigratable
  /\ isArchived(TheRepo) /\ MacOs /\ Maven /\ Codespaces
  /\ PlatformTogglesEnabled
  /\ TheResult.cohort = "UNMIGRATABLE"

(* C4: every decision step's toggle is enabled in the configuration the    *)
(* engine uses when nothing is overridden, so that under it a record       *)
(* whose unmigratable flag is present is labelled UNMIGRATABLE.            *)
C4_TogglesDefaultEnabled ==
  (Classified /\ config = CONFIG) =>
    /\ Unmigratable => TheResult.cohort = "UNMIGRATABLE"
    /\ (~Unmigratable /\ ~isArchived(TheRepo) /\ MacOs)
         => TheResult.cohort = "MACOS_RUNNERS"
    /\ (~Unmigratable /\ ~isArchived(TheRepo) /\ ~MacOs /\ Maven)
         => TheResult.cohort = "MAVEN_PACKAGES"
    /\ (~Unmigratable /\ ~isArchived(TheRepo) /\ ~MacOs /\ ~Maven
          /\ Codespaces)
         => TheResult.cohort = "CODESPACES"

(* C5: for a record neither labelled UNMIGRATABLE nor archived, with all   *)
(* platform toggles enabled: macOS flag gives MACOS_RUNNERS, otherwise     *)
(* Maven flag gives MAVEN_PACKAGES, otherwise Codespaces flag gives        *)
(* CODESPACES; the weight is not consulted.                                *)
C5_PlatformStepsInOrder ==
  (/\ Classified /\ PlatformTogglesEnabled
   /\ ~DecidedUnmigratable /\ ~isArchived(TheRepo))
    => /\ MacOs => TheResult.cohort = "MACOS_RUNNERS"
       /\ (~MacOs /\ Maven) => TheResult.cohort = "MAVEN_PACKAGES"
       /\ (~MacOs /\ ~Maven /\ Codespaces) => TheResult.cohort = "CODESPACES"

C5_Witness ==
  /\ Classified /\ PlatformTogglesEnabled
  /\ ~DecidedUnmigratable /\ ~isArchived(TheRepo)
  /\ ~MacOs /\ Maven /\ Codespaces
  /\ TheResult.cohort = "MAVEN_PACKAGES"
  /\ TheResult.migrationWeight > config.THRESHOLDS.MEDIUM_COMPLEXITY_MAX_WEIGHT

(* C6: a record not decided by steps 1-5 is CLEAN exactly when             *)
(* weight <= clean-max, LOW_COMPLEXITY exactly when                        *)
(* clean-max < weight <= low-max, MEDIUM_COMPLEXITY exactly when           *)
(* low-max < weight <= medium-max, and HIGH_COMPLEXITY otherwise.          *)
C6_WeightTiers ==
  (Classified /\ ~DecidedCategorically) =>
    LET w == TheResult.migrationWeight
        cleanMax == config.THRESHOLDS.CLEAN_REPO_MAX_WEIGHT
        lowMax == config.THRESHOLDS.LOW_COMPLEXITY_MAX_WEIGHT
        mediumMax == config.THRESHOLDS.MEDIUM_COMPLEXITY_MAX_WEIGHT
    IN  /\ TheResult.cohort = "CLEAN" <=> w <= cleanMax
        /\ TheResult.cohort = "LOW_COMPLEXITY" <=> (cleanMax < w /\ w <= lowMax)
        /\ TheResult.cohort = "MEDIUM_COMPLEXITY"
             <=> (lowMax < w /\ w <= mediumMax)
        /\ TheResult.cohort = "HIGH_COMPLEXITY" <=> mediumMax < w

(* the weight is exactly low-max: the boundary case of C6                  *)
C6_Witness ==
  /\ Classified /\ ~DecidedCategorically
  /\ TheResult.migrationWeight = config.THRESHOLDS.LOW_COMPLEXITY_MAX_WEIGHT
  /\ TheResult.cohort = "LOW_COMPLEXITY"

(* C7: classification produces one cohort label for every record and       *)
(* every configuration, and the label is a member of the closed            *)
(* enumeration of nine cohorts.                                            *)
C7_LabelInEnumeration ==
  pc = "summaries" =>
    /\ Len(simpleResults) = Len(data)
    /\ \A i \in 1..Len(simpleResults) :
         simpleResults[i].cohort \in CohortEnumeration

C7_Witness ==
  /\ Classified
  /\ TheResult.cohort = "HIGH_COMPLEXITY"
  /\ ~config.FEATURES.SEPARATE_UNMIGRATABLE_COHORT
  /\ Unmigratable

(* C8: the number of reason strings of a record equals the number of its   *)
(* HAS_ feature flags that are true, whichever cohort is chosen.           *)
C8_ReasonCountIsFlagCount ==
  Classified => Len(TheResult.reasons) = Cardinality(PresentCategories)

C8_Witness ==
  /\ Classified
  /\ TheResult.cohort = "ARCHIVED"
  /\ TheDetail.HAS_SECRETS
  /\ Len(TheResult.reasons) = 2

(* C9: presence of a category is determined identically wherever it is     *)
(* used: calculateMigrationWeight adds the category's weight exactly when  *)
(* getMigrationReasons emits its reason and exactly when hasFeatureFlags   *)
(* reports its HAS_ flag.                                                  *)
AddsWeight(repo, category) ==
  \E k \in 1..Len(WeightBranches(repo)) :
    WeightBranches(repo)[k].category = category /\ WeightBranches(repo)[k].taken

EmitsReason(repo, category) ==
  \E k \in 1..Len(ReasonBranches(repo)) :
    ReasonBranches(repo)[k].category = category /\ ReasonBranches(repo)[k].taken

C9_PresenceIdenticalEverywhere ==
  Classified =>
    \A c \in Categories :
      /\ AddsWeight(TheRepo, c) <=> EmitsReason(TheRepo, c)
      /\ EmitsReason(TheRepo, c) <=> TheDetail[FlagOf(c)]

(* C10: the aggregates of generateCohortSummaries have repositoryCount     *)
(* values that sum to the number of results and totalWeight values that    *)
(* sum to the sum of all migration weights; every result is counted in     *)
(* exactly one aggregate, the one of its cohort label.                     *)
RECURSIVE SumField(_, _)
SumField(records, field) ==
  IF records = <<>> THEN 0
  ELSE Head(records)[field] + SumField(Tail(records), field)

C10_AggregationTotals ==
  pc = "export" =>
    /\ SumField(summaries, "repositoryCount") = Len(simpleResults)
    /\ SumField(summaries, "totalWeight")
         = SumField(simpleResults, "migrationWeight")
    /\ \A i \in 1..Len(simpleResults) :
         Cardinality({k \in 1..Len(summaries) :
                        summaries[k].cohortName = simpleResults[i].cohort}) = 1
    /\ \A k \in 1..Len(summaries) :
         LET members == {i \in 1..Len(simpleResults) :
                           simpleResults[i].cohort = summaries[k].cohortName}
         IN  /\ summaries[k].repositoryCount = Cardinality(members)
             /\ members # {}

C10_Witness ==
  /\ pc = "export"
  /\ Len(simpleResults) = 3
  /\ Len(summaries) = 2
  /\ \E k \in 1..Len(summaries) :
       summaries[k].repositoryCount = 2 /\ summaries[k].totalWeight = 18

(* C11: generateCohortSummaries returns its aggregates in non-increasing   *)
(* order of averageWeight; aggregates of equal averageWeight appear in     *)
(* the order in which their cohort label first occurs in the input list.   *)
FirstOccurrence(label) ==
  CHOOSE i \in 1..Len(simpleResults) :
    /\ simpleResults[i].cohort = label
    /\ \A j \in 1..(i - 1) : simpleResults[j].cohort # label

C11_SummariesOrdered ==
  pc = "export" =>
    \A k, l \in 1..Len(summaries) :
      k < l =>
        /\ Minus(summaries[k].averageWeight, summaries[l].averageWeight) >= 0
        /\ summaries[k].averageWeight = summaries[l].averageWeight
             => FirstOccurrence(summaries[k].cohortName)
                  < FirstOccurrence(summaries[l].cohortName)

(* a tie between MAVEN_PACKAGES and CLEAN, Maven first in the input        *)
C11_Witness ==
  /\ pc = "export"
  /\ Len(summaries) = 3
  /\ summaries[1].cohortName = "LOW_COMPLEXITY"
  /\ summaries[2].cohortName = "MAVEN_PACKAGES"
  /\ summaries[3].cohortName = "CLEAN"
  /\ summaries[2].averageWeight = summaries[3].averageWeight

(* C12: every aggregate's averageWeight is totalWeight divided by          *)
(* repositoryCount, per cohort and per enterprise group, and an            *)
(* aggregation over zero records completes with count 0 and weight 0       *)
(* without a division by zero.                                             *)
IsQuotient(average, total, count) ==
  count > 0 /\ average.num * count = total * average.den

CohortAveragesExact(list) ==
  \A k \in 1..Len(list) :
    IsQuotient(list[k].averageWeight, list[k].totalWeight,
               list[k].repositoryCount)

C12_EmptyReached == pc = "exportEnterprise" /\ data = <<>>

(* C13: generateEnterpriseCohortSummaries puts every result without an     *)
(* enterprise name into the group "Unknown" and every other result into    *)
(* the group of its name; a group's totalRepositories and totalWeight are  *)
(* the count and summed weight of its results and the sums over its        *)
(* nested cohort aggregates.                                               *)
GroupNameOf(result) ==
  IF result.enterpriseName = <<>>
    THEN <<"U", "n", "k", "n", "o", "w", "n">>
    ELSE result.enterpriseName

RECURSIVE SumWeightAt(_)
SumWeightAt(indices) ==
  IF indices = {} THEN 0
  ELSE LET i == CHOOSE x \in indices : TRUE
       IN  simpleResults[i].migrationWeight + SumWeightAt(indices \ {i})

C13_EnterpriseGroups ==
  pc = "exportEnterprise" =>
    /\ \A i \in 1..Len(simpleResults) :
         Cardinality({g \in 1..Len(enterpriseSummaries) :
                        enterpriseSummaries[g].enterpriseName
                          = GroupNameOf(simpleResults[i])}) = 1
    /\ \A g \in 1..Len(enterpriseSummaries) :
         LET group == enterpriseSummaries[g]
             members == {i \in 1..Len(simpleResults) :
                           GroupNameOf(simpleResults[i]) = group.enterpriseName}
         IN  /\ members # {}
             /\ group.totalRepositories = Cardinality(members)
             /\ group.totalWeight = SumWeightAt(members)
             /\ group.totalRepositories
                  = SumField(group.cohortSummaries, "repositoryCount")
             /\ group.totalWeight
                  = SumField(group.cohortSummaries, "totalWeight")

C13_Witness ==
  /\ pc = "exportEnterprise"
  /\ Len(enterpriseSummaries) = 2
  /\ \E g \in 1..2 :
       /\ enterpriseSummaries[g].enterpriseName
            = <<"U", "n", "k", "n", "o", "w", "n">>
       /\ enterpriseSummaries[g].totalRepositories = 2
       /\ enterpriseSummaries[g].totalWeight = 18
       /\ Len(enterpriseSummaries[g].cohortSummaries) = 1
  /\ \E i \in 1..Len(simpleResults) : simpleResults[i].enterpriseName = <<>>

(* C14: the list of generateEnterpriseCohortSummaries is sorted by         *)
(* enterprise name in ascending lexicographic order, has each name at      *)
(* most once, and orders the cohort aggregates inside each group by        *)
(* averageWeight descending.                                               *)
CodeUnit(c) ==
  IF IsUpperCase(c) THEN 64 + LetterRank(c) ELSE 96 + LetterRank(c)

RECURSIVE LexicographicallyBefore(_, _)
(* a < b in the lexicographic order of the character codes                *)
LexicographicallyBefore(a, b) ==
  IF b = <<>> THEN FALSE
  ELSE IF a = <<>> THEN TRUE
  ELSE IF CodeUnit(Head(a)) # CodeUnit(Head(b))
    THEN CodeUnit(Head(a)) < CodeUnit(Head(b))
  ELSE LexicographicallyBefore(Tail(a), Tail(b))

NestedAveragesDescending ==
  \A g \in 1..Len(enterpriseSummaries) :
    LET list == enterpriseSummaries[g].cohortSummaries
    IN  \A k, l \in 1..Len(list) :
          k < l => Minus(list[k].averageWeight, list[l].averageWeight) >= 0

C14_LexicographicOrder ==
  pc = "exportEnterprise" =>
    /\ \A g, h \in 1..Len(enterpriseSummaries) :
         g < h => LexicographicallyBefore(enterpriseSummaries[g].enterpriseName,
                                          enterpriseSummaries[h].enterpriseName)
    /\ NestedAveragesDescending

(* C14 as amended: the list is sorted ascending in the order of            *)
(* localeCompare, the alphabetical order that ignores case, has each name  *)
(* at most once, and orders the cohort aggregates inside each group by     *)
(* averageWeight descending.                                               *)
C14_LocaleOrder ==
  pc = "exportEnterprise" =>
    /\ \A g, h \in 1..Len(enterpriseSummaries) :
         g < h => localeCompare(enterpriseSummaries[g].enterpriseName,
                                enterpriseSummaries[h].enterpriseName) < 0
    /\ NestedAveragesDescending

C14_Witness ==
  /\ pc = "exportEnterprise"
  /\ Len(enterpriseSummaries) = 3
  /\ enterpriseSummaries[1].enterpriseName = <<"A", "c", "m", "e">>
  /\ enterpriseSummaries[2].enterpriseName = <<"b", "e", "t", "a">>
  /\ enterpriseSummaries[3].enterpriseName
       = <<"U", "n", "k", "n", "o", "w", "n">>
  /\ simpleResults[1].enterpriseName = <<>>

(* C16: for every record, also with malformed, negative or missing field  *)
(* values, the migration weight is an integer >= 0 and at most the sum of  *)
(* all configured category weights.                                        *)
C16_WeightWithinBounds ==
  Classified =>
    /\ TheResult.migrationWeight \in Nat
    /\ TheResult.migrationWeight <= SumOfWeights(Categories)

C16_Witness ==
  /\ Classified
  /\ TheRepo["app_installations"] = <<"-", "1">>
  /\ TheRepo["repository-webhooks"] = <<"2", "x">>
  /\ TheResult.migrationWeight = config.WEIGHTS.WEBHOOKS

(* C17: every numeric field value that is missing, empty, white space,     *)
(* "null", "undefined" or not as a whole a decimal integer normalizes to   *)
(* zero and never makes its category present.                              *)
(* an optional sign and decimal digits, white space around them allowed   *)
IsDecimalInteger(value) ==
  LET t == trim(value)
      body == IF t # <<>> /\ Head(t) \in {"-", "+"} THEN Tail(t) ELSE t
  IN  body # <<>> /\ \A k \in 1..Len(body) : IsDigit(body[k])

C17_MalformedCountsAreZero ==
  Classified =>
    \A f \in NumericFields :
      ~IsDecimalInteger(TheRepo[f]) => toNumber(TheRepo[f]) = 0

(* C18: every boolean field, the archived flag included, counts as true    *)
(* exactly when its value is one of the truthy spellings "true", "TRUE",   *)
(* "1", "yes", "YES".                                                      *)
TruthySpellings ==
  { <<"t", "r", "u", "e">>, <<"T", "R", "U", "E">>, <<"1">>,
    <<"y", "e", "s">>, <<"Y", "E", "S">> }

C18_OneTruthySet ==
  Classified =>
    /\ TheDetail.HAS_IS_ARCHIVED <=> TheRepo["isArchived"] \in TruthySpellings
    /\ TheResult.isArchived <=> TheRepo["isArchived"] \in TruthySpellings
    /\ TheDetail.HAS_EXTERNAL_COLLABORATORS
         <=> TheRepo["has_external_collaborators"] \in TruthySpellings
    /\ TheDetail.HAS_UNMIGRATABLE
         <=> TheRepo["has_unmigratable"] \in TruthySpellings
    /\ TheDetail.HAS_MAVEN_PACKAGES
         <=> TheRepo["has_maven_packages"] \in TruthySpellings
    /\ TheDetail.HAS_CODESPACES <=> TheRepo["has_codespaces"] \in TruthySpellings
    /\ TheDetail.HAS_MACOS_RUNNERS
         <=> TheRepo["has_macos_runners"] \in TruthySpellings

(* C19: the projects category is present when either project count is      *)
(* positive, and it contributes the PROJECTS weight once and one reason,   *)
(* also when both counts are positive.                                     *)
WithoutProjects ==
  [TheRepo EXCEPT !["projects_linked_to_repo"] = <<>>,
                  !["issues_linked_to_projects"] = <<>>]

ProjectsPresent ==
  \/ toNumber(TheRepo["projects_linked_to_repo"]) > 0
  \/ toNumber(TheRepo["issues_linked_to_projects"]) > 0

C19_ProjectsCountOnce ==
  Classified =>
    /\ TheDetail.HAS_PROJECTS <=> ProjectsPresent
    /\ TheResult.migrationWeight - calculateMigrationWeight(WithoutProjects)
         = IF ProjectsPresent THEN config.WEIGHTS.PROJECTS ELSE 0
    /\ Len(TheResult.reasons) - Len(getMigrationReasons(WithoutProjects))
         = IF ProjectsPresent THEN 1 ELSE 0

C19_Witness ==
  /\ Classified
  /\ toNumber(TheRepo["projects_linked_to_repo"]) > 0
  /\ toNumber(TheRepo["issues_linked_to_projects"]) > 0
  /\ TheResult.migrationWeight = config.WEIGHTS.PROJECTS
  /\ Len(TheResult.reasons) = 1

(* C20: the reason strings of a record appear in the category order of     *)
(* the data model: the count-based categories from app installations to    *)
(* large releases, then archived, external collaborators, unmigratable,    *)
(* then Maven packages, Codespaces, macOS runners.                         *)
CountCategories ==
  << "APP_INSTALLATIONS", "GIT_LFS_OBJECTS", "PACKAGES", "PROJECTS",
     "CUSTOM_PROPERTIES", "RULESETS", "SECRETS", "ENVIRONMENTS",
     "SELF_HOSTED_RUNNERS", "WEBHOOKS", "DISCUSSIONS", "DEPLOY_KEYS",
     "PAGES_CUSTOM_DOMAIN", "RELEASES_LARGE" >>

DataModelOrder ==
  CountCategories
    \o << "IS_ARCHIVED", "EXTERNAL_COLLABORATORS", "UNMIGRATABLE",
          "MAVEN_PACKAGES", "CODESPACES", "MACOS_RUNNERS" >>

PushOrder ==
  CountCategories
    \o << "MAVEN_PACKAGES", "CODESPACES", "MACOS_RUNNERS",
          "EXTERNAL_COLLABORATORS", "UNMIGRATABLE", "IS_ARCHIVED" >>

ReasonText(category) ==
  LET branches == ReasonBranches(TheRepo)
  IN  branches[CHOOSE k \in 1..Len(branches) :
                 branches[k].category = category].reason

IsPresent(category) == TheDetail[FlagOf(category)]

ReasonsInOrder(order) ==
  LET present == SelectSeq(order, IsPresent)
  IN  [i \in 1..Len(present) |-> ReasonText(present[i])]

C20_DataModelOrder ==
  Classified => TheResult.reasons = ReasonsInOrder(DataModelOrder)

(* C20 as amended: the reason strings appear in the fixed order            *)
(* count-based categories from app installations to large releases, then   *)
(* Maven packages, Codespaces, macOS runners, then external                *)
(* collaborators, unmigratable, archived; the order never depends on the   *)
(* record's values or cohort.                                              *)
C20_PushOrder ==
  Classified => TheResult.reasons = ReasonsInOrder(PushOrder)

C20_Witness ==
  /\ Classified
  /\ TheResult.cohort = "ARCHIVED"
  /\ TheResult.reasons = <<"Maven packages (1)", "Archived repository">>

(* C21: a record with isArchived="true" and app_installations="5" and no   *)
(* other count or flag is labelled ARCHIVED regardless of its weight, and  *)
(* its reason list contains both "Repository is archived" and              *)
(* "App installations (5)".                                                *)
ArchivedWithInstallations ==
  /\ Classified
  /\ TheRepo = With(With(BlankRepo, "isArchived", <<"t", "r", "u", "e">>),
                    "app_installations", <<"5">>)

Contains(list, x) == \E k \in 1..Len(list) : list[k] = x

C21_ArchivedExample ==
  ArchivedWithInstallations =>
    /\ TheResult.cohort = "ARCHIVED"
    /\ Contains(TheResult.reasons, "Repository is archived")
    /\ Contains(TheResult.reasons, "App installations (5)")

(* C21 as amended: the record is labelled ARCHIVED regardless of its       *)
(* weight, and its reason list contains both "Archived repository" and     *)
(* "App installations (5)".                                                *)
C21_ArchivedExampleReasons ==
  ArchivedWithInstallations =>
    /\ TheResult.cohort = "ARCHIVED"
    /\ Contains(TheResult.reasons, "Archived repository")
    /\ Contains(TheResult.reasons, "App installations (5)")

(* the weight of the record is in the medium-complexity tier               *)
C21_Witness ==
  /\ ArchivedWithInstallations
  /\ TheResult.cohort = "ARCHIVED"
  /\ TheResult.migrationWeight
       = config.WEIGHTS.APP_INSTALLATIONS + config.WEIGHTS.IS_ARCHIVED
  /\ TheResult.migrationWeight > config.THRESHOLDS.LOW_COMPLEXITY_MAX_WEIGHT
  /\ Len(TheResult.reasons) = 2

(* C22: generateSummary is a function of (cohort label, number of          *)
(* reasons, weight) only: for UNMIGRATABLE, ARCHIVED, CLEAN,               *)
(* MACOS_RUNNERS, MAVEN_PACKAGES and CODESPACES it returns a fixed         *)
(* sentence that does not vary with weight or reasons; for LOW_, MEDIUM_   *)
(* and HIGH_COMPLEXITY a sentence embedding the weight and the reason      *)
(* count; for any other label "Migration weight: N" with N the weight.     *)
(* generateSummary on its own: two calls side by side.  Here data holds    *)
(* the argument triples of the calls, drawn from the nine labels and one   *)
(* label outside them, short reason lists and small weights, and           *)
(* summaries holds the returned sentences.                                 *)
SummaryMaxReasons == 2

SummaryMaxWeight == 2

SummaryLabels == CohortEnumeration \cup {"EXPERIMENTAL"}

SummaryReasonLists ==
  UNION {[1..n -> {"macOS runners", "External collaborators"}] :
           n \in 0..SummaryMaxReasons}

SummaryArguments ==
  [cohort : SummaryLabels, reasons : SummaryReasonLists,
   weight : 0..SummaryMaxWeight]

InitSummary ==
  /\ config = CONFIG
  /\ data \in [1..2 -> SummaryArguments]
  /\ pc = "generateSummary"
  /\ detailedResults = Unset
  /\ simpleResults = Unset
  /\ summaries = Unset
  /\ enterpriseSummaries = Unset

GenerateSummary ==
  /\ pc = "generateSummary"
  /\ summaries' =
       [i \in 1..Len(data) |->
          generateSummary(data[i].cohort, data[i].reasons, data[i].weight)]
  /\ pc' = "summarised"
  /\ UNCHANGED <<config, data, detailedResults, simpleResults,
                 enterpriseSummaries>>

NextSummary == GenerateSummary

SpecSummary == InitSummary /\ [][NextSummary]_vars

FixedSentenceLabels ==
  { "UNMIGRATABLE", "ARCHIVED", "CLEAN", "MACOS_RUNNERS", "MAVEN_PACKAGES",
    "CODESPACES" }

ComplexityLabels == {"LOW_COMPLEXITY", "MEDIUM_COMPLEXITY", "HIGH_COMPLEXITY"}

C22_SummaryOfLabelCountWeight ==
  pc = "summarised" =>
    \A i, j \in 1..Len(data) :
      LET a == data[i]
          b == data[j]
          sameCount == Len(a.reasons) = Len(b.reasons)
      IN  /\ (a.cohort = b.cohort /\ sameCount /\ a.weight = b.weight)
               => summaries[i] = summaries[j]
          /\ (a.cohort = b.cohort /\ a.cohort \in FixedSentenceLabels)
               => summaries[i] = summaries[j]
          /\ (/\ a.cohort = b.cohort /\ a.cohort \in ComplexityLabels
              /\ (~sameCount \/ a.weight # b.weight))
               => summaries[i] # summaries[j]
          /\ a.cohort \notin CohortEnumeration
               => summaries[i] = "Migration weight: " \o ToString(a.weight)

(* an archived label summarised for two weights and two reason lists, and  *)
(* a label outside the enumeration                                         *)
C22_Witness ==
  /\ pc = "summarised"
  /\ data[1].cohort = "ARCHIVED" /\ data[1].weight = 0
  /\ data[1].reasons = <<>>
  /\ data[2].cohort = "ARCHIVED" /\ data[2].weight = 2
  /\ Len(data[2].reasons) = 2
  /\ summaries[1] = summaries[2]

C22_FallbackReached ==
  /\ pc = "summarised"
  /\ data[1].cohort = "EXPERIMENTAL"
  /\ summaries[1] = "Migration weight: 0"

(* C23: weight calculation, reason generation and cohort assignment return *)
(* a value for every record, also when numeric or boolean fields are       *)
(* missing or malformed, and a malformed field is treated as absent: it    *)
(* contributes no weight and no reason.                                    *)
IsBooleanSpelling(value) ==
  value \in TruthySpellings \cup {<<>>, <<"f", "a", "l", "s", "e">>}

IsMalformed(f) ==
  \/ f \in NumericFields /\ TheRepo[f] # <<>> /\ ~IsDecimalInteger(TheRepo[f])
  \/ f \in BooleanFields /\ ~IsBooleanSpelling(TheRepo[f])

(* the record with the field f left empty                                  *)
Without(f) == With(TheRepo, f, <<>>)

C23_MalformedFieldsAreAbsent ==
  Classified =>
    /\ TheResult.migrationWeight \in Nat
    /\ TheResult.cohort \in CohortEnumeration
    /\ \A k \in 1..Len(TheResult.reasons) : TheResult.reasons[k] \in STRING
    /\ \A f \in NumericFields \cup BooleanFields :
         IsMalformed(f) =>
           /\ TheResult.migrationWeight = calculateMigrationWeight(Without(f))
           /\ Len(TheResult.reasons) = Len(getMigrationReasons(Without(f)))
           /\ TheResult.cohort
                = assignCohort(Without(f), calculateMigrationWeight(Without(f)))

(* C24: once computed, the list of cohort assignments is immutable: the    *)
(* reporting operations exportToCsv, exportDetailedToCsv and               *)
(* exportEnterpriseSpecificToCsv leave the content and the order of the    *)
(* results array they are given unchanged, so the array seen by any later  *)
(* step equals the array returned by classification.                       *)
C24_ResultsImmutable ==
  /\ pc \in {"analyze", "summaries", "export", "enterprise",
              "exportEnterprise", "done"}
       => detailedResults = analyzeRepositoriesDetailed(data)
  /\ pc \in {"summaries", "export", "enterprise", "exportEnterprise", "done"}
       => simpleResults = analyzeRepositories(data)

(* C25: analyzeRepositories returns exactly one result per input record,   *)
(* in input order; the result of a record depends only on that record and  *)
(* the configuration, never on another record of the input; duplicate      *)
(* records each get their own, equal, result.                              *)
C25_OneResultPerRecord ==
  pc = "summaries" =>
    /\ Len(simpleResults) = Len(data)
    /\ \A i \in 1..Len(data) :
         simpleResults[i] = analyzeRepositories(<<data[i]>>)[1]
    /\ \A i, j \in 1..Len(data) :
         data[i] = data[j] => simpleResults[i] = simpleResults[j]

(* a record, a different one, and the first one again                      *)
C25_Witness ==
  /\ pc = "summaries"
  /\ Len(data) = 3
  /\ data[1] = data[3] /\ data[1] # data[2]
  /\ Len(simpleResults) = 3
  /\ simpleResults[1] = simpleResults[3]
  /\ simpleResults[1].cohort = "LOW_COMPLEXITY"
  /\ simpleResults[2].cohort = "MAVEN_PACKAGES"

(* C26: when a categorical toggle (unmigratable, macOS, Maven or           *)
(* Codespaces) is disabled its step is skipped entirely: a record whose    *)
(* only matching categorical flags belong to disabled steps is classified  *)
(* by the later steps, ending in the weight tiers, and never gets the      *)
(* disabled step's label; the archived step has no toggle and applies      *)
(* under every toggle setting.                                             *)
TierLabels == {"CLEAN", "LOW_COMPLEXITY", "MEDIUM_COMPLEXITY", "HIGH_COMPLEXITY"}

C26_DisabledStepsSkipped ==
  Classified =>
    /\ ~config.FEATURES.SEPARATE_UNMIGRATABLE_COHORT
         => TheResult.cohort # "UNMIGRATABLE"
    /\ ~config.FEATURES.SEPARATE_MACOS_COHORT
         => TheResult.cohort # "MACOS_RUNNERS"
    /\ ~config.FEATURES.SEPARATE_MAVEN_COHORT
         => TheResult.cohort # "MAVEN_PACKAGES"
    /\ ~config.FEATURES.SEPARATE_CODESPACE_COHORT
         => TheResult.cohort # "CODESPACES"
    /\ ~DecidedCategorically => TheResult.cohort \in TierLabels
    /\ (isArchived(TheRepo) /\ ~DecidedUnmigratable)
         => TheResult.cohort = "ARCHIVED"

(* all four toggles disabled, all four flags present: a weight tier        *)
C26_Witness ==
  /\ Classified
  /\ ~config.FEATURES.SEPARATE_UNMIGRATABLE_COHORT
  /\ ~config.FEATURES.SEPARATE_MACOS_COHORT
  /\ ~config.FEATURES.SEPARATE_MAVEN_COHORT
  /\ ~config.FEATURES.SEPARATE_CODESPACE_COHORT
  /\ Unmigratable /\ MacOs /\ Maven /\ Codespaces /\ ~isArchived(TheRepo)
  /\ TheResult.cohort = "HIGH_COMPLEXITY"

(* all toggles disabled and the archived flag present                      *)
C26_ArchivedReached ==
  /\ Classified
  /\ ~config.FEATURES.SEPARATE_UNMIGRATABLE_COHORT
  /\ ~config.FEATURES.SEPARATE_MACOS_COHORT
  /\ ~config.FEATURES.SEPARATE_MAVEN_COHORT
  /\ ~config.FEATURES.SEPARATE_CODESPACE_COHORT
  /\ Unmigratable /\ MacOs /\ isArchived(TheRepo)
  /\ TheResult.cohort = "ARCHIVED"

(* C27: whenever a record is labelled CLEAN (every configured weight       *)
(* positive, clean-max = 0, any setting of the toggles) no category is     *)
(* present on it: its reason list is empty and every HAS_ flag is false.   *)
C27_CleanHasNoCategory ==
  (/\ Classified
   /\ TheResult.cohort = "CLEAN"
   /\ config.THRESHOLDS.CLEAN_REPO_MAX_WEIGHT = 0
   /\ \A c \in Categories : config.WEIGHTS[c] > 0)
    => /\ TheResult.reasons = <<>>
       /\ PresentCategories = {}

(* C28: in runCohortAnalysis the enterprise cohort summaries, computed     *)
(* after exportToCsv has run on the same results array, are identical      *)
(* (group order, cohort order inside each group, counts, totals and        *)
(* means) to the summaries generateEnterpriseCohortSummaries produces      *)
(* from the results in their original classification order.                *)
C28_EnterpriseSummariesUnaffectedByExport ==
  pc \in {"exportEnterprise", "done"} =>
    enterpriseSummaries
      = generateEnterpriseCohortSummaries(analyzeRepositories(data))

(* C29: for the same input records analyzeRepositoriesDetailed and         *)
(* analyzeRepositories agree record by record: same cohort, same           *)
(* migrationWeight, same summary, the detailed reasons string is the       *)
(* simple reason list joined by "; "; the detailed cohortWeight equals     *)
(* migrationWeight and featureGapCount is the number of true flags among   *)
(* HAS_MAVEN_PACKAGES, HAS_CODESPACES and HAS_MACOS_RUNNERS.               *)
GapFlags == {"HAS_MAVEN_PACKAGES", "HAS_CODESPACES", "HAS_MACOS_RUNNERS"}

WithoutSecrets ==
  [TheRepo EXCEPT !["repository-actions-secrets"] = <<>>,
                  !["repository-dependabot-secrets"] = <<>>]

(* the values of the two secrets columns exchanged                         *)
SecretsExchanged ==
  [TheRepo EXCEPT
     !["repository-actions-secrets"] = TheRepo["repository-dependabot-secrets"],
     !["repository-dependabot-secrets"] = TheRepo["repository-actions-secrets"]]

SecretsPresent ==
  \/ toNumber(TheRepo["repository-actions-secrets"]) > 0
  \/ toNumber(TheRepo["repository-dependabot-secrets"]) > 0

C30_SecretsCountOnce ==
  Classified =>
    /\ TheDetail.HAS_SECRETS <=> SecretsPresent
    /\ TheResult.migrationWeight - calculateMigrationWeight(WithoutSecrets)
         = IF SecretsPresent THEN config.WEIGHTS.SECRETS ELSE 0
    /\ Len(TheResult.reasons) - Len(getMigrationReasons(WithoutSecrets))
         = IF SecretsPresent THEN 1 ELSE 0
    /\ TheResult.migrationWeight = calculateMigrationWeight(SecretsExchanged)

(* both counts positive                                                    *)
C30_Witness ==
  /\ Classified
  /\ toNumber(TheRepo["repository-actions-secrets"]) > 0
  /\ toNumber(TheRepo["repository-dependabot-secrets"]) > 0
  /\ TheResult.migrationWeight = config.WEIGHTS.SECRETS
  /\ TheResult.reasons = <<"Secrets (Actions: 5, Dependabot: 12)">>

(* only Dependabot secrets                                                 *)
C30_DependabotOnlyReached ==
  /\ Classified
  /\ toNumber(TheRepo["repository-actions-secrets"]) = 0
  /\ toNumber(TheRepo["repository-dependabot-secrets"]) > 0
  /\ TheResult.migrationWeight = config.WEIGHTS.SECRETS

====
